---- MODULE Spec2Model ----
(***************************************************************************)
(* Model of the documint documentation-modernization pipeline:            *)
(*   src/agents/workflow.py        the five-stage graph and fetch_node      *)
(*   src/agents/analyzer.py        analyze_content                          *)
(*   src/agents/researcher.py      research_best_practices                  *)
(*   src/agents/generator.py       generate_modernized_docs                 *)
(*   src/agents/quality_checker.py check_quality                            *)
(*   src/tools/fetcher.py          fetch_documentation, _validate_url       *)
(*   src/utils/json_parser.py      extract_json_from_response               *)
(*                                                                         *)
(* Texts (LLM responses, URLs) are sequences of tokens.  In an LLM         *)
(* response a token is one lexeme: the code fence, a label, one            *)
(* whitespace character, one JSON punctuation character, a JSON literal,   *)
(* or a bare word.  A token in StrToks stands for the double-quoted JSON   *)
(* string literal with that content.  The token DeepOpen stands for a run  *)
(* of "[" characters longer than the interpreter's recursion limit.  In a  *)
(* URL a token is one character.                                           *)
(*                                                                         *)
(* Python values are tagged records [t |-> type, v |-> payload].  Numbers  *)
(* are fixed-point, in tenths, so that one decimal place is exact.         *)
(***************************************************************************)
EXTENDS Integers, Sequences, FiniteSets, TLC

VARIABLES
    pc,        \* position of the run: the next stage, "done", "raised"; or "call"/"returned"
    state,     \* the DocumentState record threaded through the graph
    ran,       \* the stages that have been entered, in order
    update,    \* the partial update returned by the stage that ran last
    raised,    \* the exception that left a stage function, or "none"
    http,      \* number of calls of requests.get
    llm,       \* number of LLM invocations per stage
    reply,     \* what the last LLM invocation of each stage gave: a text or an exception
    research,  \* locals of research_best_practices: prioritized, results, next index
    arg,       \* argument of the function under call (function specifications)
    ret        \* the last call of a function under study: its name, exception, value

vars == <<pc, state, ran, update, raised, http, llm, reply, research, arg, ret>>

----------------------------------------------------------------------------
(* Python values *)

None == [t |-> "None", v |-> 0]
Num(n) == [t |-> "num", v |-> n]
Str(s) == [t |-> "str", v |-> s]
Bool(b) == [t |-> "bool", v |-> b]
List(q) == [t |-> "list", v |-> q]
Dict(f) == [t |-> "dict", v |-> f]
EmptyMap == [k \in {} |-> None]

\* Python truthiness: None, 0, "", [], {} and False are falsy
Truthy(x) ==
    CASE x.t = "None" -> FALSE
      [] x.t = "num"  -> x.v # 0
      [] x.t = "str"  -> x.v # ""
      [] x.t = "bool" -> x.v
      [] x.t = "list" -> x.v # <<>>
      [] x.t = "dict" -> DOMAIN x.v # {}
      [] OTHER        -> TRUE

\* dict.get(key, default)
DictGet(d, key, default) == IF key \in DOMAIN d.v THEN d.v[key] ELSE default

----------------------------------------------------------------------------
(* Tokens of LLM responses *)

\* the markdown code fence: three backtick characters
Fence == "<fence>"
\* a run of "[" nested deeper than json.loads can follow
DeepOpen == "[...["
WS == {" ", "\n"}
JsonLabels == {"json", "JSON"}
StrToks == {"k", "severity", "section", "high", "medium", "low", "HIGH", "urgent",
            "scores", "suggestions", "clarity", "completeness", "n/a", "s1", "s2",
            "s3", "s4", "s5", "s6", "s7"}
TokNum == ("0" :> 0) @@ ("1" :> 10) @@ ("6" :> 60) @@ ("7" :> 70) @@ ("8" :> 80)
          @@ ("10" :> 100) @@ ("11" :> 110) @@ ("7.5" :> 75)

RECURSIVE SkipWs(_, _)
\* the first position at or after i that holds no whitespace (Len(s)+1 when none)
SkipWs(s, i) == IF i <= Len(s) /\ s[i] \in WS THEN SkipWs(s, i + 1) ELSE i

RECURSIVE SkipWsBack(_, _)
SkipWsBack(s, i) == IF i >= 1 /\ s[i] \in WS THEN SkipWsBack(s, i - 1) ELSE i

\* str.strip()
Strip(s) ==
    LET a == SkipWs(s, 1)
        b == SkipWsBack(s, Len(s))
    IN IF a > b THEN <<>> ELSE SubSeq(s, a, b)

----------------------------------------------------------------------------
(* json.loads: strict JSON over tokens *)

Fail == [ok |-> FALSE, val |-> None, pos |-> 0, deep |-> FALSE]
Ok(val, pos) == [ok |-> TRUE, val |-> val, pos |-> pos, deep |-> FALSE]
\* the scanner recursed once per "[" and ran into the recursion limit
TooDeep == [ok |-> FALSE, val |-> None, pos |-> 0, deep |-> TRUE]

\* the element of a one-element set: Only({F(x) : x \in {e}}) is F(e) with e
\* evaluated once
Only(S) == CHOOSE x \in S : TRUE

RECURSIVE ParseValue(_, _), ParseElems(_, _, _), ParseMembers(_, _, _)
ParseValue(s, i0) ==
    LET At(i) ==
          IF i > Len(s) THEN Fail
          ELSE IF s[i] \in DOMAIN TokNum THEN Ok(Num(TokNum[s[i]]), i + 1)
          ELSE IF s[i] \in StrToks THEN Ok(Str(s[i]), i + 1)
          ELSE IF s[i] = "true" THEN Ok(Bool(TRUE), i + 1)
          ELSE IF s[i] = "false" THEN Ok(Bool(FALSE), i + 1)
          ELSE IF s[i] = "null" THEN Ok(None, i + 1)
          ELSE IF s[i] = DeepOpen THEN TooDeep
          ELSE IF s[i] = "[" THEN
              LET j == SkipWs(s, i + 1) IN
              IF j <= Len(s) /\ s[j] = "]" THEN Ok(List(<<>>), j + 1)
              ELSE ParseElems(s, i + 1, <<>>)
          ELSE IF s[i] = "{" THEN
              LET j == SkipWs(s, i + 1) IN
              IF j <= Len(s) /\ s[j] = "}" THEN Ok(Dict(EmptyMap), j + 1)
              ELSE ParseMembers(s, i + 1, EmptyMap)
          ELSE Fail
    IN Only({At(i) : i \in {SkipWs(s, i0)}})

\* the elements of an array from position i on; acc holds those read so far
ParseElems(s, i, acc) ==
    LET After(r) ==
          IF ~r.ok THEN r
          ELSE LET j == SkipWs(s, r.pos) IN
               IF j > Len(s) THEN Fail
               ELSE IF s[j] = "," THEN ParseElems(s, j + 1, Append(acc, r.val))
               ELSE IF s[j] = "]" THEN Ok(List(Append(acc, r.val)), j + 1)
               ELSE Fail
    IN Only({After(r) : r \in {ParseValue(s, i)}})

\* the members of an object from position i on; a repeated key: the last wins
ParseMembers(s, i, acc) ==
    LET k == SkipWs(s, i) IN
    IF k > Len(s) \/ s[k] \notin StrToks THEN Fail
    ELSE LET c == SkipWs(s, k + 1) IN
         IF c > Len(s) \/ s[c] # ":" THEN Fail
         ELSE LET After(r) ==
                    IF ~r.ok THEN r
                    ELSE LET j == SkipWs(s, r.pos)
                             more == (s[k] :> r.val) @@ acc
                         IN IF j > Len(s) THEN Fail
                            ELSE IF s[j] = "," THEN ParseMembers(s, j + 1, more)
                            ELSE IF s[j] = "}" THEN Ok(Dict(more), j + 1)
                            ELSE Fail
              IN Only({After(r) : r \in {ParseValue(s, c + 1)}})

\* json.loads(text): [ok, val, deep]; ok = FALSE is an exception, RecursionError
\* when deep and json.JSONDecodeError otherwise
json_loads(text) ==
    LET Whole(r) == IF ~r.ok \/ SkipWs(text, r.pos) > Len(text) THEN r ELSE Fail
    IN Only({Whole(r) : r \in {ParseValue(text, 1)}})

\* what a call gives back: a value, or the exception that leaves it
Ret(val) == [exc |-> "none", val |-> val]
Raise(exc) == [exc |-> exc, val |-> None]

\* json_parser.py safe_json_parse: the value, or None on JSONDecodeError; any other
\* exception of json.loads leaves the function
safe_json_parse(text) ==
    LET Caught(r) == IF r.ok THEN Ret(r.val)
                     ELSE IF r.deep THEN Raise("RecursionError")
                     ELSE Ret(None)
    IN Only({Caught(r) : r \in {json_loads(text)}})

----------------------------------------------------------------------------
(* The two patterns of extract_json_from_response *)

NoMatch == [ok |-> FALSE, lo |-> 0, hi |-> 0, end |-> 0]
\* what opens group 1: a brace, a bracket, or the first bracket of a run of them
Openers == {"{", "[", DeepOpen}
Closer(open) == IF open = "{" THEN "}" ELSE "]"
MinOf(S) == CHOOSE x \in S : \A y \in S : x <= y

\* fenced_pattern at position p: ```(?:json)?\s*(\{.*?\}|\[.*?\])\s*```
\* [lo, hi] is group 1 and end the first position after the match
FencedMatchAt(s, p) ==
    IF s[p] # Fence THEN NoMatch
    ELSE LET a == IF p + 1 <= Len(s) /\ s[p + 1] \in JsonLabels THEN p + 2 ELSE p + 1
             q == SkipWs(s, a)
         IN IF q > Len(s) \/ s[q] \notin Openers THEN NoMatch
            ELSE LET ends == {e \in (q + 1)..Len(s) :
                                /\ s[e] = Closer(s[q])
                                /\ LET f == SkipWs(s, e + 1)
                                   IN f <= Len(s) /\ s[f] = Fence}
                 IN IF ends = {} THEN NoMatch
                    ELSE LET e == MinOf(ends)
                         IN [ok |-> TRUE, lo |-> q, hi |-> e, end |-> SkipWs(s, e + 1) + 1]

\* inline_pattern at position p: (\{.*?\}|\[.*?\])
InlineMatchAt(s, p) ==
    IF s[p] \notin Openers THEN NoMatch
    ELSE LET ends == {e \in (p + 1)..Len(s) : s[e] = Closer(s[p])}
         IN IF ends = {} THEN NoMatch
            ELSE LET e == MinOf(ends)
                 IN [ok |-> TRUE, lo |-> p, hi |-> e, end |-> e + 1]

RECURSIVE FencedFindall(_, _)
\* fenced_pattern.findall(response) from position p on: group 1 of the leftmost
\* match, then of the matches behind its end (matches do not overlap)
FencedFindall(s, p) ==
    LET From(starts) ==
          IF starts = {} THEN <<>>
          ELSE LET Rest(m) == <<SubSeq(s, m.lo, m.hi)>> \o FencedFindall(s, m.end)
               IN Only({Rest(m) : m \in {FencedMatchAt(s, MinOf(starts))}})
    IN Only({From(starts) : starts \in {{q \in p..Len(s) : FencedMatchAt(s, q).ok}}})

RECURSIVE InlineFindall(_, _)
\* inline_pattern.findall(response) from position p on
InlineFindall(s, p) ==
    LET From(starts) ==
          IF starts = {} THEN <<>>
          ELSE LET Rest(m) == <<SubSeq(s, m.lo, m.hi)>> \o InlineFindall(s, m.end)
               IN Only({Rest(m) : m \in {InlineMatchAt(s, MinOf(starts))}})
    IN Only({From(starts) : starts \in {{q \in p..Len(s) : InlineMatchAt(s, q).ok}}})

RECURSIVE StripEach(_)
\* [match.strip() for match in ...]
StripEach(matches) ==
    IF matches = <<>> THEN <<>> ELSE <<Strip(Head(matches))>> \o StripEach(Tail(matches))

\* json_parser.py lines 27-36: the fenced matches, or the inline ones when there is none
Candidates(response) ==
    LET Pick(fenced) == IF fenced # <<>> THEN fenced ELSE StripEach(InlineFindall(response, 1))
    IN Only({Pick(fenced) : fenced \in {StripEach(FencedFindall(response, 1))}})

RECURSIVE FirstParsed(_)
\* json_parser.py lines 38-42: the first candidate that safe_json_parse accepts
FirstParsed(candidates) ==
    IF candidates = <<>> THEN Ret(None)
    ELSE LET Loop(parsed) ==
               IF parsed.exc # "none" THEN parsed
               ELSE IF parsed.val # None THEN parsed
               ELSE FirstParsed(Tail(candidates))
         IN Only({Loop(parsed) : parsed \in {safe_json_parse(Strip(Head(candidates)))}})

\* json_parser.py extract_json_from_response
extract_json_from_response(response) ==
    IF response = <<>> THEN Ret(None)
    ELSE Only({FirstParsed(candidates) : candidates \in {Candidates(response)}})

----------------------------------------------------------------------------
(* researcher.py _prioritize_issues *)

severity_order == ("high" :> 3) @@ ("medium" :> 2) @@ ("low" :> 1)
TopN == 5

\* str.lower() on the strings of the model
Lower(s) ==
    CASE s = "HIGH" -> "high"
      [] OTHER      -> s

\* the sort key: severity_order.get(issue.get("severity", "").lower(), 0)
\* an issue with no .get, or a severity with no .lower, raises AttributeError
SeverityKey(issue) ==
    IF issue.t # "dict" THEN Raise("AttributeError")
    ELSE LET sev == DictGet(issue, "severity", Str(""))
         IN IF sev.t # "str" THEN Raise("AttributeError")
            ELSE LET low == Lower(sev.v)
                 IN Ret(IF low \in DOMAIN severity_order THEN severity_order[low] ELSE 0)

\* insert x behind every element whose key is not smaller: a stable descending order
RECURSIVE InsertDesc(_, _)
InsertDesc(sorted, x) ==
    IF sorted = <<>> THEN <<x>>
    ELSE IF SeverityKey(Head(sorted)).val >= SeverityKey(x).val
         THEN <<Head(sorted)>> \o InsertDesc(Tail(sorted), x)
         ELSE <<x>> \o sorted

RECURSIVE SortedDesc(_)
\* sorted(analyzed_sections, key=..., reverse=True)
SortedDesc(q) ==
    IF q = <<>> THEN <<>>
    ELSE Only({InsertDesc(sorted, q[Len(q)]) : sorted \in {SortedDesc(SubSeq(q, 1, Len(q) - 1))}})

Take(q, n) == SubSeq(q, 1, IF Len(q) < n THEN Len(q) ELSE n)

\* researcher.py _prioritize_issues: sorted_issues[:5], or the exception of a key
_prioritize_issues(analyzed_sections) ==
    IF \E i \in 1..Len(analyzed_sections) : SeverityKey(analyzed_sections[i]).exc # "none"
    THEN Raise("AttributeError")
    ELSE Ret(Take(SortedDesc(analyzed_sections), TopN))

----------------------------------------------------------------------------
(* quality_checker.py _calculate_average_score *)

\* isinstance(v, (int, float)): bool is a subclass of int
IsIntOrFloat(v) == v.t \in {"num", "bool"}

\* float(v), in tenths
FloatOf(v) == IF v.t = "bool" THEN (IF v.v THEN 10 ELSE 0) ELSE v.v

RECURSIVE SumOver(_, _)
SumOver(f, keys) ==
    IF keys = {} THEN 0
    ELSE Only({FloatOf(f[k]) + Only({SumOver(f, rest) : rest \in {keys \ {k}}}) :
                 k \in {CHOOSE x \in keys : TRUE}})

\* round(total / n, 1) in tenths: to nearest, a tie to the even neighbour
RoundTenths(total, n) ==
    LET q == total \div n
        r == total % n
    IN IF 2 * r < n THEN q
       ELSE IF 2 * r > n THEN q + 1
       ELSE IF q % 2 = 0 THEN q ELSE q + 1

\* quality_checker.py _calculate_average_score
_calculate_average_score(scores) ==
    IF ~Truthy(scores) THEN Ret(Num(0))
    ELSE IF scores.t # "dict" THEN Raise("AttributeError")
    ELSE LET values == {k \in DOMAIN scores.v : IsIntOrFloat(scores.v[k])}
         IN IF values = {} THEN Ret(Num(0))
            ELSE Ret(Num(RoundTenths(SumOver(scores.v, values), Cardinality(values))))

----------------------------------------------------------------------------
(* generator.py _clean_markdown_output *)

\* one backtick character
Tick == "<tick>"
Backticks == {Fence, Tick}

RECURSIVE LStripTicks(_)
LStripTicks(s) == IF s # <<>> /\ Head(s) \in Backticks THEN LStripTicks(Tail(s)) ELSE s

RECURSIVE RStripTicks(_)
RStripTicks(s) ==
    IF s # <<>> /\ s[Len(s)] \in Backticks THEN RStripTicks(SubSeq(s, 1, Len(s) - 1)) ELSE s

\* str.strip of the backtick character
StripTicks(s) == RStripTicks(LStripTicks(s))

\* str.replace("markdown", "", 1): the first occurrence goes, wherever it is
ReplaceFirstMarkdown(s) ==
    LET at == {i \in 1..Len(s) : s[i] = "markdown"}
    IN IF at = {} THEN s
       ELSE LET i == MinOf(at) IN SubSeq(s, 1, i - 1) \o SubSeq(s, i + 1, Len(s))

\* generator.py _clean_markdown_output
_clean_markdown_output(content) ==
    IF content = <<>> THEN <<>>
    ELSE LET cleaned == Strip(content)
         IN IF cleaned # <<>> /\ Head(cleaned) = Fence
            THEN Strip(Strip(ReplaceFirstMarkdown(StripTicks(cleaned))))
            ELSE Strip(cleaned)

----------------------------------------------------------------------------
(* fetcher.py: a URL is a sequence of characters *)

Text(chars) == [t |-> "text", v |-> chars]
IsStr(x) == x.t = "text"
\* "not url" for the inputs of the model
Falsy(x) == x = None \/ (x.t = "num" /\ x.v = 0) \/ (x.t = "text" /\ x.v = <<>>)

\* the character class [\\w.-] of the raw-string pattern: a backslash, w, dot, hyphen
HostClass == {"\\", "w", ".", "-"}

\* ".*$" from position p on: no newline but, at most, a last one
DotStarEnd(s, p) == \A j \in p..Len(s) : s[j] = "\n" => j = Len(s)

\* "[\\w.-]+(?:\\.[\\w.-]+)+.*$" from position b on: one or more class characters,
\* then a backslash, any character but a newline, and a class character
HostTail(s, b) ==
    \E i \in b..Len(s) :
        /\ \A j \in b..i : s[j] \in HostClass
        /\ i + 3 <= Len(s)
        /\ s[i + 1] = "\\"
        /\ s[i + 2] # "\n"
        /\ s[i + 3] \in HostClass
        /\ DotStarEnd(s, i + 4)

StartsWith(s, prefix) == Len(s) >= Len(prefix) /\ SubSeq(s, 1, Len(prefix)) = prefix

\* pattern.match(url) for r"^https?://[\\w.-]+(?:\\.[\\w.-]+)+.*$"
PatternMatch(s) ==
    \/ StartsWith(s, <<"h", "t", "t", "p", ":", "/", "/">>) /\ HostTail(s, 8)
    \/ StartsWith(s, <<"h", "t", "t", "p", "s", ":", "/", "/">>) /\ HostTail(s, 9)

RaiseMsg(exc, msg) == [exc |-> exc, msg |-> msg, val |-> None]

\* fetcher.py _validate_url: True, or ValueError
_validate_url(url) ==
    IF Falsy(url) \/ ~IsStr(url)
    THEN RaiseMsg("ValueError", <<"URL must be a non-empty string">>)
    ELSE IF ~PatternMatch(url.v)
    THEN RaiseMsg("ValueError", <<"Invalid URL: ">> \o url.v)
    ELSE [exc |-> "none", msg |-> <<>>, val |-> Bool(TRUE)]

\* what requests.get and the HTML conversion can give: a page with its markdown,
\* or an exception of the HTTP library with its message
Pages == {[kind |-> "page", html |-> <<"<main>", "Guide", "</main>">>, md |-> <<"Guide">>],
          [kind |-> "page", html |-> <<"<body>", "Old", "API", "</body>">>, md |-> <<"Old", "API">>]}
NetworkErrors == {[kind |-> "error", msg |-> <<"404 Client Error">>],
                  [kind |-> "error", msg |-> <<"Connection timed out">>]}
GetOutcomes == Pages \cup NetworkErrors

\* fetcher.py fetch_documentation; gets counts the calls of requests.get
fetch_documentation(url, outcome) ==
    LET valid == _validate_url(url) IN
    IF valid.exc # "none"
    THEN [exc |-> valid.exc, msg |-> valid.msg, gets |-> 0, html |-> <<>>, md |-> <<>>]
    ELSE IF ~valid.val.v
    THEN [exc |-> "ValueError", msg |-> <<"Invalid URL: ">> \o url.v, gets |-> 0,
          html |-> <<>>, md |-> <<>>]
    ELSE IF outcome.kind = "error"
    THEN [exc |-> "RequestException", msg |-> outcome.msg, gets |-> 1,
          html |-> <<>>, md |-> <<>>]
    ELSE [exc |-> "none", msg |-> <<>>, gets |-> 1, html |-> outcome.html, md |-> outcome.md]

----------------------------------------------------------------------------
(* workflow.py: the state and the stage functions *)

Stages == <<"fetch", "analyze", "research", "generate", "quality_check">>

\* workflow.py run_workflow: the initial DocumentState
InitialState(url) ==
    [url |-> url, raw_html |-> <<>>, original_content |-> <<>>,
     analyzed_sections |-> <<>>, research_results |-> <<>>,
     modernized_markdown |-> <<>>, quality_report |-> Dict(EmptyMap),
     messages |-> <<>>, error |-> None]

NoUpdate == [k \in {} |-> None]

MergeUpdate_mut(st, upd) ==
    [k \in DOMAIN st |-> IF k \in DOMAIN upd THEN upd[k] ELSE InitialState(st.url)[k]]

\* the graph merges a stage's partial update into the state by key
MergeUpdate(st, upd) ==
    [k \in DOMAIN st |-> IF k \in DOMAIN upd THEN upd[k] ELSE st[k]]

fetch_node_mut(st, outcome) ==
    LET r == fetch_documentation(st.url, outcome) IN
    IF r.exc = "none"
    THEN [upd |-> [raw_html |-> r.html, original_content |-> r.md], gets |-> r.gets,
          exc |-> r.exc]
    ELSE [upd |-> [error |-> Text(r.msg), raw_html |-> <<"<html>">>], gets |-> r.gets,
          exc |-> r.exc]

\* workflow.py fetch_node: every exception of fetch_documentation becomes
\* {"error": str(exc)}; exc is what fetch_documentation raised, gets its calls of requests.get
fetch_node(st, outcome) ==
    LET r == fetch_documentation(st.url, outcome) IN
    IF r.exc = "none"
    THEN [upd |-> [raw_html |-> r.html, original_content |-> r.md], gets |-> r.gets,
          exc |-> r.exc]
    ELSE [upd |-> [error |-> Text(r.msg)], gets |-> r.gets, exc |-> r.exc]

\* an LLM call raises, or answers with a text
LLMError == [kind |-> "error", text |-> <<>>]
Reply(text) == [kind |-> "reply", text |-> text]

\* analyzer.py analyze_content
analyze_content(st, outcome) ==
    IF outcome.kind = "error" THEN [analyzed_sections |-> <<>>]
    ELSE LET parsed == extract_json_from_response(outcome.text) IN
         IF parsed.exc # "none" THEN [analyzed_sections |-> <<>>]
         ELSE [analyzed_sections |-> IF parsed.val.t = "list" THEN parsed.val.v ELSE <<>>]

\* generator.py _create_generation_prompt: issue.get on every analyzed issue and
\* item.get on every research result; the prompt text itself is not modelled
PromptRaises(st) == \E i \in 1..Len(st.analyzed_sections) : st.analyzed_sections[i].t # "dict"

\* generator.py generate_modernized_docs
generate_modernized_docs(st, outcome) ==
    IF outcome.kind = "error" \/ PromptRaises(st) THEN [modernized_markdown |-> <<>>]
    ELSE [modernized_markdown |-> _clean_markdown_output(outcome.text)]

Report(scores, suggestions, average) ==
    Dict([scores |-> scores, suggestions |-> suggestions, average_score |-> average])

\* quality_checker.py line 49: the report of the except branch
DefaultReport == Report(Dict(EmptyMap), List(<<>>), Num(0))

check_quality_mut(st, outcome) ==
    IF outcome.kind = "error"
    THEN [quality_report |-> DefaultReport, error |-> Text(<<"Quality check failed">>)]
    ELSE LET parsed == extract_json_from_response(outcome.text) IN
         IF parsed.exc # "none" THEN [quality_report |-> DefaultReport]
         ELSE LET isdict == parsed.val.t = "dict"
                  scores == IF isdict THEN DictGet(parsed.val, "scores", Dict(EmptyMap))
                            ELSE Dict(EmptyMap)
                  suggestions == IF isdict THEN DictGet(parsed.val, "suggestions", List(<<>>))
                                 ELSE List(<<>>)
                  average == _calculate_average_score(scores)
              IN IF average.exc # "none" THEN [quality_report |-> DefaultReport]
                 ELSE [quality_report |-> Report(scores, suggestions, average.val)]

\* quality_checker.py check_quality
check_quality(st, outcome) ==
    IF outcome.kind = "error" THEN [quality_report |-> DefaultReport]
    ELSE LET parsed == extract_json_from_response(outcome.text) IN
         IF parsed.exc # "none" THEN [quality_report |-> DefaultReport]
         ELSE LET isdict == parsed.val.t = "dict"
                  scores == IF isdict THEN DictGet(parsed.val, "scores", Dict(EmptyMap))
                            ELSE Dict(EmptyMap)
                  suggestions == IF isdict THEN DictGet(parsed.val, "suggestions", List(<<>>))
                                 ELSE List(<<>>)
                  average == _calculate_average_score(scores)
              IN IF average.exc # "none" THEN [quality_report |-> DefaultReport]
                 ELSE [quality_report |-> Report(scores, suggestions, average.val)]

----------------------------------------------------------------------------
(* The inputs of a run: the URL and what the network and the LLMs answer *)

ExampleCom == Text(<<"h", "t", "t", "p", "s", ":", "/", "/", "e", "x", "a", "m", "p", "l", "e", ".", "c", "o", "m">>)
InvalidUrl == Text(<<"i", "n", "v", "a", "l", "i", "d", "-", "u", "r", "l">>)
BackslashUrl == Text(<<"h", "t", "t", "p", ":", "/", "/", "w", "\\", ".", "w">>)
Urls == {None, Text(<<>>), InvalidUrl, ExampleCom, BackslashUrl}

Issue(section, sev) == <<"{", "section", ":", section, ",", "severity", ":", sev, "}">>
IssueNoSeverity(section) == <<"{", "section", ":", section, "}">>

RECURSIVE JoinComma(_)
JoinComma(items) ==
    IF items = <<>> THEN <<>>
    ELSE IF Len(items) = 1 THEN Head(items)
    ELSE Head(items) \o <<",", " ">> \o JoinComma(Tail(items))

Array(items) == <<"[">> \o JoinComma(items) \o <<"]">>
Fenced(body) == <<Fence, "json", "\n">> \o body \o <<"\n", Fence>>

AnalyzerReplies ==
    { <<"No", "issues", "found">>,
      <<"{", "k", ":", "1", "}">>,
      Array(<<>>),
      Array(<<Issue("s1", "low"), Issue("s2", "high"), Issue("s3", "medium"),
              Issue("s4", "high")>>),
      <<"Here", " ">> \o Fenced(Array(<<Issue("s1", "low"), Issue("s2", "HIGH"),
              Issue("s3", "urgent"), IssueNoSeverity("s4"), Issue("s5", "medium"),
              Issue("s6", "high")>>)),
      Array(<<Issue("s1", "high"), <<"1">> >>),
      Array(<<Issue("s1", "null")>>),
      Array(<<Issue("s1", "8"), Issue("s2", "low")>>),
      <<DeepOpen, "]">>,
      <<"{", "k", ":", "{", "k", ":", "1", "}", ",", "section", ":">>
          \o Array(<<Issue("s1", "high")>>) \o <<"}">>,
      <<"{", "scores", ":", "{", "clarity", ":", "8", "}", ",", "suggestions", ":",
        "[", "s1", "]", "}">> }

ResearchReplies == { <<"Use", "current", "tooling">> }

GeneratorReplies ==
    { <<"#", "Guide", "\n">>,
      <<Fence, "markdown", "\n", "#", "Guide", "\n", Fence>>,
      <<Fence, "\n", "code", "\n", Fence, "\n", "about", "markdown">>,
      <<>> }

QualityReplies ==
    { <<"Looks", "fine">>,
      <<"{", "scores", ":", "{", "clarity", ":", "8", "}", ",", "suggestions", ":",
        "[", "s1", "]", "}">>,
      Fenced(<<"{", "scores", ":", "{", "clarity", ":", "8", ",", "completeness", ":", "6",
               ",", "k", ":", "n/a", "}", ",", "suggestions", ":", "[", "s1", "]", "}">>),
      Fenced(<<"{", "scores", ":", "{", "clarity", ":", "11", ",", "k", ":", "true", "}",
               "}">>),
      Fenced(<<"{", "scores", ":", "[", "8", "]", ",", "suggestions", ":", "s1", "}">>),
      Fenced(<<"{", "scores", ":", "null", "}">>),
      Fenced(Array(<<<<"8">>>>)),
      Fenced(<<DeepOpen, "]">>) }

LLMOutcomes(replies) == {LLMError} \cup {Reply(t) : t \in replies}

----------------------------------------------------------------------------
(* The pipeline: workflow.py build_workflow, fetch -> analyze -> research ->    *)
(* generate -> quality_check -> END, every edge unconditional                   *)

NoResearch == [prioritized |-> <<>>, results |-> <<>>, i |-> 0]
NoCalls == [s \in {"analyze", "research", "generate", "quality_check"} |-> 0]
Called(stage) == [llm EXCEPT ![stage] = @ + 1]
NoReply == [kind |-> "none", text |-> <<>>]
NoReplies == [s \in {"analyze", "research", "generate", "quality_check"} |-> NoReply]
Got(stage, outcome) == [reply EXCEPT ![stage] = outcome]

Init ==
    /\ pc = "fetch"
    /\ \E url \in Urls : state = InitialState(url)
    /\ ran = <<>>
    /\ update = NoUpdate
    /\ raised = "none"
    /\ http = 0
    /\ llm = NoCalls
    /\ reply = NoReplies
    /\ research = NoResearch
    /\ arg = None
    /\ ret = [fn |-> "none", exc |-> "none", val |-> None]

\* the node "fetch"
Fetch ==
    /\ pc = "fetch"
    /\ \E outcome \in GetOutcomes :
         LET r == fetch_node(state, outcome) IN
         /\ update' = r.upd
         /\ state' = MergeUpdate(state, r.upd)
         /\ http' = http + r.gets
         /\ ret' = [fn |-> "fetch_documentation", exc |-> r.exc, val |-> None]
    /\ ran' = Append(ran, "fetch")
    /\ pc' = "analyze"
    /\ UNCHANGED <<raised, llm, reply, research, arg>>

\* the node "analyze"
Analyze ==
    /\ pc = "analyze"
    /\ \E outcome \in LLMOutcomes(AnalyzerReplies) :
         LET upd == analyze_content(state, outcome) IN
         /\ update' = upd
         /\ state' = MergeUpdate(state, upd)
         /\ reply' = Got("analyze", outcome)
    /\ llm' = Called("analyze")
    /\ ran' = Append(ran, "analyze")
    /\ pc' = "research"
    /\ UNCHANGED <<raised, http, research, arg, ret>>

\* the node "research", researcher.py lines 25-33: the issues are prioritized outside
\* any try block, then the client is built; an exception of _prioritize_issues leaves
\* the node and ends the run, a client that cannot be built gives an empty result
ResearchStart ==
    /\ pc = "research"
    /\ ran' = Append(ran, "research")
    /\ LET prioritized == _prioritize_issues(state.analyzed_sections) IN
       IF prioritized.exc # "none"
       THEN /\ raised' = prioritized.exc
            /\ pc' = "raised"
            /\ UNCHANGED <<state, update, research>>
       ELSE \E client \in {"built", "failed"} :
              IF client = "failed"
              THEN /\ update' = [research_results |-> <<>>]
                   /\ state' = MergeUpdate(state, [research_results |-> <<>>])
                   /\ pc' = "generate"
                   /\ UNCHANGED <<raised, research>>
              ELSE /\ research' = [prioritized |-> prioritized.val, results |-> <<>>, i |-> 1]
                   /\ pc' = "research_loop"
                   /\ UNCHANGED <<raised, state, update>>
    /\ UNCHANGED <<http, llm, reply, arg, ret>>

ResearchCall_mut ==
    /\ pc = "research_loop"
    /\ research.i <= Len(research.prioritized)
    /\ \E outcome \in LLMOutcomes(ResearchReplies) :
         LET issue == research.prioritized[research.i]
             result == [original_issue |-> issue, current_practices |-> outcome.text,
                        timestamp |-> "utcnow"]
         IN /\ research' = [research EXCEPT
                              !.results = IF outcome.kind = "error" THEN @ ELSE Append(@, result),
                              !.i = IF outcome.kind = "error"
                                    THEN Len(research.prioritized) + 1 ELSE @ + 1]
            /\ reply' = Got("research", outcome)
    /\ llm' = Called("research")
    /\ UNCHANGED <<pc, state, ran, update, raised, http, arg, ret>>

\* researcher.py lines 35-49: one pass of the loop, one LLM call for one issue
ResearchCall ==
    /\ pc = "research_loop"
    /\ research.i <= Len(research.prioritized)
    /\ \E outcome \in LLMOutcomes(ResearchReplies) :
         LET issue == research.prioritized[research.i]
             result == [original_issue |-> issue, current_practices |-> outcome.text,
                        timestamp |-> "utcnow"]
         IN /\ research' = [research EXCEPT
                              !.results = IF outcome.kind = "error" THEN @ ELSE Append(@, result),
                              !.i = @ + 1]
            /\ reply' = Got("research", outcome)
    /\ llm' = Called("research")
    /\ UNCHANGED <<pc, state, ran, update, raised, http, arg, ret>>

\* researcher.py lines 51-52: the loop is over, the results are returned
ResearchReturn ==
    /\ pc = "research_loop"
    /\ research.i > Len(research.prioritized)
    /\ update' = [research_results |-> research.results]
    /\ state' = MergeUpdate(state, [research_results |-> research.results])
    /\ pc' = "generate"
    /\ UNCHANGED <<ran, raised, http, llm, reply, research, arg, ret>>

\* the node "generate"
Generate ==
    /\ pc = "generate"
    /\ \E outcome \in LLMOutcomes(GeneratorReplies) :
         LET upd == generate_modernized_docs(state, outcome) IN
         /\ update' = upd
         /\ state' = MergeUpdate(state, upd)
         /\ reply' = Got("generate", outcome)
    /\ llm' = Called("generate")
    /\ ran' = Append(ran, "generate")
    /\ pc' = "quality_check"
    /\ UNCHANGED <<raised, http, research, arg, ret>>

\* the node "quality_check", whose edge leads to END
QualityCheck ==
    /\ pc = "quality_check"
    /\ \E outcome \in LLMOutcomes(QualityReplies) :
         LET upd == check_quality(state, outcome) IN
         /\ update' = upd
         /\ state' = MergeUpdate(state, upd)
         /\ reply' = Got("quality_check", outcome)
    /\ llm' = Called("quality_check")
    /\ ran' = Append(ran, "quality_check")
    /\ pc' = "done"
    /\ UNCHANGED <<raised, http, research, arg, ret>>

Next ==
    \/ Fetch
    \/ Analyze
    \/ ResearchStart
    \/ ResearchCall
    \/ ResearchReturn
    \/ Generate
    \/ QualityCheck

Spec == Init /\ [][Next]_vars

----------------------------------------------------------------------------
(* Calls of single functions on bounded inputs.  The pipeline variables rest. *)

Resting ==
    /\ state = InitialState(None)
    /\ ran = <<>>
    /\ update = NoUpdate
    /\ raised = "none"
    /\ llm = NoCalls
    /\ reply = NoReplies
    /\ research = NoResearch

RestingUnchanged == UNCHANGED <<state, ran, update, raised, llm, reply, research, arg>>

NotCalled == [fn |-> "none", exc |-> "none", val |-> None]
Returned(fn, r) == [fn |-> fn, exc |-> r.exc, val |-> r.val]

RECURSIVE Concat(_)
Concat(segs) == IF segs = <<>> THEN <<>> ELSE Head(segs) \o Concat(Tail(segs))

SeqsUpTo(S, n) == UNION {[1..k -> S] : k \in 0..n}

(* json_parser.py: responses put together from a few segments *)

MaxSegs == 3
FlatObject == <<"{", "k", ":", "1", "}">>
ScoresObject == <<"{", "scores", ":", "{", "clarity", ":", "8", "}", ",", "suggestions", ":",
                  "[", "s1", "]", "}">>
NestedArray == <<"[", "[", "1", "]", ",", "[", "8", "]", "]">>
ObjectArray == <<"[", "{", "k", ":", "1", "}", ",", " ", "{", "k", ":", "8", "}", "]">>
ArrayInObject == <<"{", "k", ":", "[", "1", ",", "8", "]", "}">>
Malformed == <<"{", "key", ":", "value", "}">>
DeepArray == <<DeepOpen, "]">>
JsonSegments ==
    { <<"The", " ", "result">>, <<" ">>, <<Fence>>, <<"[">>, <<"}">>,
      FlatObject, ScoresObject, NestedArray, ObjectArray, ArrayInObject, Malformed,
      DeepArray, Fenced(Malformed), Fenced(FlatObject), Fenced(ScoresObject),
      Fenced(DeepArray), <<Fence, "[", "8", "]", Fence>> }
JsonTexts == {Concat(segs) : segs \in SeqsUpTo(JsonSegments, MaxSegs)}

InitJson ==
    /\ pc = "call"
    /\ arg \in JsonTexts
    /\ ret = NotCalled
    /\ http = 0
    /\ Resting

CallExtract ==
    /\ pc = "call"
    /\ ret' = Returned("extract_json_from_response", extract_json_from_response(arg))
    /\ pc' = "returned"
    /\ UNCHANGED http
    /\ RestingUnchanged

CallSafeParse ==
    /\ pc = "call"
    /\ ret' = Returned("safe_json_parse", safe_json_parse(arg))
    /\ pc' = "returned"
    /\ UNCHANGED http
    /\ RestingUnchanged

NextJson == CallExtract \/ CallSafeParse

SpecJson == InitJson /\ [][NextJson]_vars

(* fetcher.py: fetch_documentation on strings and non-strings *)

MaxRest == 4
UrlPrefixes == { <<>>, <<"h", "t", "t", "p", ":", "/", "/">>,
                 <<"h", "t", "t", "p", "s", ":", "/", "/">>,
                 <<"f", "t", "p", ":", "/", "/">>,
                 <<"h", "t", "t", "p", ":", "/">> }
UrlChars == {"\\", "w", "a", ".", "-", "/"}
UrlInputs ==
    {None, Num(0), Num(5), ExampleCom, InvalidUrl}
    \cup {Text(prefix \o rest) : prefix \in UrlPrefixes, rest \in SeqsUpTo(UrlChars, MaxRest)}

InitFetch ==
    /\ pc = "call"
    /\ arg \in UrlInputs
    /\ ret = NotCalled
    /\ http = 0
    /\ Resting

CallFetch ==
    /\ pc = "call"
    /\ \E outcome \in GetOutcomes :
         LET r == fetch_documentation(arg, outcome) IN
         /\ ret' = [fn |-> "fetch_documentation", exc |-> r.exc,
                    val |-> [msg |-> r.msg, html |-> r.html, md |-> r.md]]
         /\ http' = http + r.gets
    /\ pc' = "returned"
    /\ RestingUnchanged

NextFetch == CallFetch

SpecFetch == InitFetch /\ [][NextFetch]_vars

(* researcher.py: _prioritize_issues on lists of distinct issues *)

MaxIssues == 6
IssueOf(section, sev) == Dict([section |-> Str(section), severity |-> sev])
IssueUniverse ==
    { IssueOf("s1", Str("high")), IssueOf("s2", Str("HIGH")), IssueOf("s3", Str("medium")),
      IssueOf("s4", Str("low")), IssueOf("s5", Str("urgent")),
      Dict([section |-> Str("s6")]), IssueOf("s7", None) }
IssueLists ==
    {q \in SeqsUpTo(IssueUniverse, MaxIssues) :
        \A i, j \in 1..Len(q) : i # j => q[i] # q[j]}

InitPrio ==
    /\ pc = "call"
    /\ arg \in IssueLists
    /\ ret = NotCalled
    /\ http = 0
    /\ Resting

CallPrioritize ==
    /\ pc = "call"
    /\ ret' = Returned("_prioritize_issues", _prioritize_issues(arg))
    /\ pc' = "returned"
    /\ UNCHANGED http
    /\ RestingUnchanged

NextPrio == CallPrioritize

SpecPrio == InitPrio /\ [][NextPrio]_vars

(* quality_checker.py: _calculate_average_score on score mappings *)

MaxScores == 3
ScoreKeys == {"completeness", "clarity", "technical_accuracy",
              "modernization_effectiveness", "k"}
ScoreValues == {Num(80), Num(60), Num(100), Num(75), Str("n/a"), None, Bool(TRUE)}
ScoreMappings ==
    UNION {[keys -> ScoreValues] : keys \in {K \in SUBSET ScoreKeys : Cardinality(K) <= MaxScores}}

InitAvg ==
    /\ pc = "call"
    /\ \E scores \in ScoreMappings : arg = Dict(scores)
    /\ ret = NotCalled
    /\ http = 0
    /\ Resting

CallAverage ==
    /\ pc = "call"
    /\ ret' = Returned("_calculate_average_score", _calculate_average_score(arg))
    /\ pc' = "returned"
    /\ UNCHANGED http
    /\ RestingUnchanged

NextAvg == CallAverage

SpecAvg == InitAvg /\ [][NextAvg]_vars

(* generator.py: _clean_markdown_output on short LLM responses *)

MaxClean == 6
CleanTokens == {Fence, "markdown", "\n", "Guide"}
CleanInputs == SeqsUpTo(CleanTokens, MaxClean)

InitClean ==
    /\ pc = "call"
    /\ arg \in CleanInputs
    /\ ret = NotCalled
    /\ http = 0
    /\ Resting

CallClean ==
    /\ pc = "call"
    /\ ret' = Returned("_clean_markdown_output", Ret(_clean_markdown_output(arg)))
    /\ pc' = "returned"
    /\ UNCHANGED http
    /\ RestingUnchanged

NextClean == CallClean

SpecClean == InitClean /\ [][NextClean]_vars

----------------------------------------------------------------------------
(* Properties of the pipeline, checked under Spec *)

Ended == pc \in {"done", "raised"}
IsPrefix(a, b) == Len(a) <= Len(b) /\ SubSeq(b, 1, Len(a)) = a
FetchFailed == ret.fn = "fetch_documentation" /\ ret.exc # "none"

\* C1: in every run the stages execute exactly once each, in the order fetch,
\* analyze, research, generate, quality_check, and the run then ends; the order is
\* the same when fetch has set error.  At every point the stages entered so far are
\* a prefix of that order, and a run that has ended has entered all five.
C1_AllStagesRunInOrder ==
    /\ IsPrefix(ran, Stages)
    /\ Ended => ran = Stages

\* C2: whatever an LLM call does (an exception, text with no JSON, JSON of any
\* shape), no stage function raises, so every run ends after quality_check and
\* never by an exception that leaves a stage.
C2_NoStageRaises == raised = "none" /\ pc # "raised"

\* C3: when fetching fails (validation error or network error) fetch_node raises
\* nothing and returns a partial update whose only key is error, a non-empty
\* message; from then on, and so in the final state, error is a non-empty message
\* and raw_html and original_content are still empty.
C3_FetchFailureOnlySetsError ==
    FetchFailed =>
        /\ pc = "analyze" => /\ raised = "none"
                             /\ DOMAIN update = {"error"}
                             /\ update.error.t = "text"
                             /\ update.error.v # <<>>
        /\ state.error.t = "text"
        /\ state.error.v # <<>>
        /\ state.raw_html = <<>>
        /\ state.original_content = <<>>

\* a run that ended after quality_check although its URL failed validation
C3_Witness ==
    /\ pc = "done"
    /\ state.url = InvalidUrl
    /\ ret.exc = "ValueError"
    /\ state.error = Text(<<"Invalid URL: ">> \o InvalidUrl.v)

----------------------------------------------------------------------------
(* Properties of fetch_documentation, checked under SpecFetch *)

Letters == {"a", "w", "e", "x", "m", "p", "l", "c", "o"}
HostNameChars == Letters \cup {".", "-"}
HttpPrefixes == { <<"h", "t", "t", "p", ":", "/", "/">>,
                  <<"h", "t", "t", "p", "s", ":", "/", "/">> }

\* http:// or https:// followed by a host: at least one host-name character
IsHttpUrlWithHost(url) ==
    /\ IsStr(url)
    /\ \E prefix \in HttpPrefixes :
         /\ StartsWith(url.v, prefix)
         /\ Len(url.v) > Len(prefix)
         /\ url.v[Len(prefix) + 1] \in HostNameChars

\* http:// or https://, a dotted host name of letters, digits, "." or "-" (a
\* label that starts and ends with a letter, a dot, a letter), then an optional path
IsWellFormedUrl(url) ==
    /\ IsStr(url)
    /\ \E prefix \in HttpPrefixes :
         /\ StartsWith(url.v, prefix)
         /\ \E i \in (Len(prefix) + 1)..(Len(url.v) - 2) :
              /\ url.v[Len(prefix) + 1] \in Letters
              /\ \A j \in (Len(prefix) + 1)..i : url.v[j] \in HostNameChars
              /\ url.v[i] \in Letters
              /\ url.v[i + 1] = "."
              /\ url.v[i + 2] \in Letters
              /\ \A j \in (i + 3)..Len(url.v) : url.v[j] \in HostNameChars \cup {"/"}

\* C4: for every input that is not an http:// or https:// URL with a host (the
\* empty string and non-strings included) fetch_documentation fails with
\* ValueError and requests.get is never called.
C4_NonUrlsRejectedBeforeGet ==
    (pc = "returned" /\ ~IsHttpUrlWithHost(arg)) => (ret.exc = "ValueError" /\ http = 0)

\* C5: a well-formed URL (such as https://example.com) passes validation:
\* fetch_documentation calls requests.get once and, when the GET succeeds, returns
\* the HTML and the markdown.
C5_WellFormedUrlsFetched ==
    (pc = "returned" /\ IsWellFormedUrl(arg)) =>
        /\ ret.exc # "ValueError"
        /\ http = 1
        /\ ret.exc = "none" => ret.val.html # <<>>

----------------------------------------------------------------------------
(* Properties of the JSON extraction, checked under SpecJson *)

Extracted == pc = "returned" /\ ret.fn = "extract_json_from_response"
FencedSpans(text) == StripEach(FencedFindall(text, 1))
InlineSpans(text) == StripEach(InlineFindall(text, 1))
StrictOk(span) == json_loads(span).ok
\* the parse of the first span, in text order, that is strict JSON; None when none is
FirstStrict(spans) ==
    LET good == {i \in 1..Len(spans) : StrictOk(spans[i])}
    IN IF good = {} THEN None ELSE json_loads(spans[MinOf(good)]).val

\* C6: when the response holds at least one fenced span (a fence, optionally
\* labelled json, around {...} or [...]), only the fenced spans are candidates and
\* the result is the parse of the first of them that is strict JSON; the unfenced
\* spans count only when there is no fenced span at all.
C6_FencedSpansPreferred ==
    (Extracted /\ FencedSpans(arg) # <<>>) => ret.val = FirstStrict(FencedSpans(arg))

\* the same on the responses from which the extraction returns
C6_HoldsWhenExtractionReturns ==
    (Extracted /\ ret.exc = "none") =>
        /\ FencedSpans(arg) # <<>> => ret.val = FirstStrict(FencedSpans(arg))
        /\ FencedSpans(arg) = <<>> => ret.val = FirstStrict(InlineSpans(arg))

Brackets == {"{", "}", "[", "]"}
\* the part of the text from its first to its last brace or bracket
JsonCore(text) ==
    LET at == {i \in 1..Len(text) : text[i] \in Brackets}
    IN IF at = {} THEN <<>>
       ELSE SubSeq(text, MinOf(at), CHOOSE i \in at : \A j \in at : j <= i)

\* the text has no fence and is prose, one valid JSON object or array, prose
HoldsOneJsonValue(text) ==
    /\ \A i \in 1..Len(text) : text[i] # Fence
    /\ JsonCore(text) # <<>>
    /\ StrictOk(JsonCore(text))

\* C7: from a response with no fence that holds exactly one valid JSON object or
\* array, possibly within prose and possibly nested, the extraction returns exactly
\* that value.
C7_SingleUnfencedValueReturned ==
    (Extracted /\ HoldsOneJsonValue(arg)) => ret.val = json_loads(JsonCore(arg)).val

\* C8: extract_json_from_response and safe_json_parse never raise; a candidate that
\* is not strict JSON is skipped for the next one, and when no candidate parses, or
\* the text is empty, the result is None, never an empty object or list.
C8_NeverRaisesAbsentIsNone ==
    pc = "returned" =>
        /\ ret.exc = "none"
        /\ ret.fn = "safe_json_parse" =>
             ret.val = (IF StrictOk(arg) THEN json_loads(arg).val ELSE None)
        /\ ret.fn = "extract_json_from_response" =>
             LET spans == IF FencedSpans(arg) # <<>> THEN FencedSpans(arg)
                          ELSE InlineSpans(arg)
                 good == {i \in 1..Len(spans) : StrictOk(spans[i])}
             IN /\ arg = <<>> => ret.val = None
                /\ good = {} => ret.val = None
                /\ good # {} => /\ ret.val # None
                                /\ \E i \in good : /\ ret.val = json_loads(spans[i]).val
                                                   /\ \A j \in 1..(i - 1) : j \notin good

\* the same on the texts that hold no run of brackets beyond the recursion limit
C8_HoldsOnShallowTexts ==
    (pc = "returned" /\ \A i \in 1..Len(arg) : arg[i] # DeepOpen) =>
        /\ ret.exc = "none"
        /\ ret.fn = "safe_json_parse" =>
             ret.val = (IF StrictOk(arg) THEN json_loads(arg).val ELSE None)
        /\ ret.fn = "extract_json_from_response" =>
             ret.val = FirstStrict(IF FencedSpans(arg) # <<>> THEN FencedSpans(arg)
                                   ELSE InlineSpans(arg))

----------------------------------------------------------------------------
(* Properties of _prioritize_issues, checked under SpecPrio *)

\* the rank the ranking gives an issue: high 3, medium 2, low 1, anything else 0
ClaimedRank(issue) ==
    LET sev == IF issue.t = "dict" /\ "severity" \in DOMAIN issue.v
               THEN issue.v["severity"] ELSE None
        low == IF sev.t = "str" THEN Lower(sev.v) ELSE ""
    IN CASE low = "high"   -> 3
         [] low = "medium" -> 2
         [] low = "low"    -> 1
         [] OTHER          -> 0

OfRank(q, r) == SelectSeq(q, LAMBDA issue : ClaimedRank(issue) = r)
\* the issues by descending rank, equal ranks in their original order
ByRank(q) == OfRank(q, 3) \o OfRank(q, 2) \o OfRank(q, 1) \o OfRank(q, 0)

\* C9: for every issue list _prioritize_issues returns the first min(5, n) elements
\* of the list sorted by descending rank (high 3, medium 2, low 1, any other
\* severity 0), issues of equal rank in their original order.
C9_TopFiveByStableRank ==
    pc = "returned" =>
        /\ ret.exc = "none"
        /\ ret.val = Take(ByRank(arg), 5)

\* the same on the lists whose severities are all strings or missing
C9_HoldsOnStringSeverities ==
    (pc = "returned" /\ \A i \in 1..Len(arg) : SeverityKey(arg[i]).exc = "none") =>
        /\ ret.exc = "none"
        /\ ret.val = Take(ByRank(arg), 5)

----------------------------------------------------------------------------
(* Properties of _calculate_average_score, checked under SpecAvg *)

RECURSIVE SumTenths(_, _)
SumTenths(f, keys) ==
    IF keys = {} THEN 0
    ELSE LET k == CHOOSE x \in keys : TRUE IN f[k].v + SumTenths(f, keys \ {k})

\* C10: average_score is the arithmetic mean of exactly the numeric score values,
\* rounded to one decimal place; values that are not numbers are left out of the sum
\* and of the count, and a mapping with no numeric value gives 0.0.
C10_MeanOfNumericScores ==
    pc = "returned" =>
        LET numeric == {k \in DOMAIN arg.v : arg.v[k].t = "num"}
            n == Cardinality(numeric)
            total == SumTenths(arg.v, numeric)
            off == ret.val.v * n - total
        IN /\ ret.exc = "none"
           /\ ret.val.t = "num"
           /\ n = 0 => ret.val.v = 0
           /\ n > 0 => 2 * off <= n /\ -2 * off <= n

\* the same on the mappings that hold no boolean
C10_HoldsWithoutBooleans ==
    (pc = "returned" /\ \A k \in DOMAIN arg.v : arg.v[k].t # "bool") =>
        LET numeric == {k \in DOMAIN arg.v : arg.v[k].t = "num"}
            n == Cardinality(numeric)
            off == ret.val.v * n - SumTenths(arg.v, numeric)
        IN /\ ret.exc = "none"
           /\ n = 0 => ret.val.v = 0
           /\ n > 0 => 2 * off <= n /\ -2 * off <= n

----------------------------------------------------------------------------
(* Properties of the degraded paths and of the research loop, checked under Spec *)

\* the analyzer's LLM call raised, or its reply holds no brace and no bracket, or
\* its reply is one JSON value, unfenced, whose top level is not an array
AnalyzerDegraded ==
    LET a == reply.analyze IN
    \/ a.kind = "error"
    \/ a.kind = "reply" /\ \A i \in 1..Len(a.text) : a.text[i] \notin Brackets \cup {Fence, DeepOpen}
    \/ /\ a.kind = "reply"
       /\ HoldsOneJsonValue(a.text)
       /\ json_loads(JsonCore(a.text)).val.t # "list"

\* C11: when the analyzer's LLM call fails, returns text with no JSON, or returns
\* JSON whose top level is not an array, analyzed_sections is the empty list; the
\* research stage then makes no LLM call and yields an empty research_results, and
\* generate and quality_check still run, so the run ends normally.
C11_AnalyzerFailureGivesEmptyRun ==
    AnalyzerDegraded =>
        /\ state.analyzed_sections = <<>>
        /\ llm.research = 0
        /\ state.research_results = <<>>
        /\ pc # "raised"
        /\ Ended => ran = Stages

\* the same when the top-level value holds no nested object or array
C11_HoldsOnFlatReplies ==
    LET a == reply.analyze.text
        core == JsonCore(a)
    IN (AnalyzerDegraded /\ \A i \in 2..(Len(core) - 1) : core[i] \notin Brackets) =>
        /\ state.analyzed_sections = <<>>
        /\ llm.research = 0
        /\ state.research_results = <<>>
        /\ pc # "raised"
        /\ Ended => ran = Stages

AfterResearch == pc \in {"generate", "quality_check", "done"}
\* the research stage built its LLM client and entered its loop
ClientBuilt == research.i > 0
\* the issues the stage is to research: the first five by rank
Prioritized == Take(ByRank(state.analyzed_sections), 5)
IssuesOf(results) == [k \in 1..Len(results) |-> results[k].original_issue]

RECURSIVE IsSubsequence(_, _)
\* a can be got from b by dropping elements
IsSubsequence(a, b) ==
    IF a = <<>> THEN TRUE
    ELSE IF b = <<>> THEN FALSE
    ELSE IF Head(a) = Head(b) THEN IsSubsequence(Tail(a), Tail(b))
    ELSE IsSubsequence(a, Tail(b))

\* one pass of the loop: one call, about the next issue in priority order; its
\* entry is appended when the call succeeded and nothing else changes when it failed
OneCallPerPass ==
    (pc = "research_loop" /\ research' # research) =>
        /\ research'.i = research.i + 1
        /\ research'.prioritized = research.prioritized
        /\ llm'.research = llm.research + 1
        /\ IF reply'.research.kind = "reply"
           THEN research'.results =
                    Append(research.results,
                           [original_issue |-> research.prioritized[research.i],
                            current_practices |-> reply'.research.text,
                            timestamp |-> "utcnow"])
           ELSE research'.results = research.results

\* the research stage calls the LLM nowhere but in a pass of its loop
CallsOnlyInLoop == llm'.research # llm.research => pc = "research_loop"

InLoop ==
    pc = "research_loop" =>
        /\ research.prioritized = Prioritized
        /\ llm.research = research.i - 1
        /\ IsSubsequence(IssuesOf(research.results), SubSeq(Prioritized, 1, research.i - 1))

AtMostFive == llm.research <= 5 /\ Len(state.research_results) <= 5

\* the original statement of C12: one call for every prioritized issue, whatever
\* happens, and one entry for every call that succeeded
C12_Original_OneCallPerIssue ==
    /\ [][OneCallPerPass /\ CallsOnlyInLoop]_vars
    /\ [](/\ AtMostFive
          /\ InLoop
          /\ AfterResearch =>
                /\ llm.research = Len(Prioritized)
                /\ IsSubsequence(IssuesOf(state.research_results), Prioritized))

\* C12 (amended): when the research stage has built its LLM client it makes exactly
\* one LLM call per prioritized issue, one after the other in priority order, at most
\* five; research_results holds one entry for each call that succeeded, in that
\* order, each with the issue it was asked about, and a failed call drops only its
\* own entry.  When the client cannot be built no call is made and
\* research_results is empty.  research_results never holds more than 5 entries.
C12_OneCallPerIssueWhenClientBuilt ==
    /\ [][OneCallPerPass /\ CallsOnlyInLoop]_vars
    /\ [](/\ AtMostFive
          /\ InLoop
          /\ AfterResearch =>
                IF ClientBuilt
                THEN /\ llm.research = Len(Prioritized)
                     /\ state.research_results = research.results
                     /\ IsSubsequence(IssuesOf(state.research_results), Prioritized)
                ELSE /\ llm.research = 0
                     /\ state.research_results = <<>>)

\* a finished run with five prioritized issues in which the first call failed and
\* later calls succeeded
C12_Witness ==
    /\ pc = "done"
    /\ ClientBuilt
    /\ Len(Prioritized) = 5
    /\ llm.research = 5
    /\ Len(state.research_results) = 3
    /\ state.research_results[1].original_issue = Prioritized[2]
    /\ state.research_results[3].original_issue = Prioritized[5]

----------------------------------------------------------------------------
(* Properties of _clean_markdown_output, checked under SpecClean *)

\* the stripped response is one fenced block: a fence first, a fence last, none between
WrappedWhole(t) ==
    /\ Len(t) >= 2
    /\ t[1] = Fence
    /\ t[Len(t)] = Fence
    /\ \A i \in 2..(Len(t) - 1) : t[i] # Fence

\* the stripped response does not both begin and end with a fence
NotWrapped(t) == t = <<>> \/ t[1] # Fence \/ t[Len(t)] # Fence

\* the body of a wrapped response, without a language tag markdown right behind the
\* opening fence
Unwrapped(t) ==
    LET body == SubSeq(t, 2, Len(t) - 1)
    IN Strip(IF body # <<>> /\ Head(body) = "markdown" THEN Tail(body) ELSE body)

\* C13: the clean-up returns the response with surrounding whitespace stripped and
\* otherwise unchanged, unless the whole response is wrapped in a fence; only then
\* are the two fence markers removed, with a markdown tag right behind the opening
\* fence.  A response that only begins with a fenced block keeps its backticks, and a
\* word markdown that is not the leading tag is kept.
C13_OnlyWholeFenceUnwrapped ==
    pc = "returned" =>
        LET t == Strip(arg) IN
        /\ NotWrapped(t) => ret.val = t
        /\ WrappedWhole(t) => ret.val = Unwrapped(t)

\* the same on the responses that do not begin with a fence
C13_HoldsWithoutLeadingFence ==
    (pc = "returned" /\ (Strip(arg) = <<>> \/ Strip(arg)[1] # Fence)) => ret.val = Strip(arg)

----------------------------------------------------------------------------
(* Properties of the shared state, checked under Spec *)

\* the fields of the state that a step changes
Changed == {k \in DOMAIN state : state'[k] # state[k]}

\* the stage that is running, by the position of the run
Running ==
    CASE pc = "research_loop" -> "research"
      [] OTHER                -> pc

\* the output fields of each stage; fetch has two sets, for success and for failure
OwnFields ==
    [fetch |-> {{"raw_html", "original_content"}, {"error"}},
     analyze |-> {{"analyzed_sections"}},
     research |-> {{"research_results"}},
     generate |-> {{"modernized_markdown"}},
     quality_check |-> {{"quality_report"}}]

\* C14: each stage changes only its own output fields of the shared state: fetch
\* only raw_html and original_content (or only error), analyze only
\* analyzed_sections, research only research_results, generate only
\* modernized_markdown, quality_check only quality_report; url never changes, every
\* key a stage does not return keeps its value, and a field once written by its
\* stage keeps that value until the run ends (no later step changes it).
C14_StagesWriteOwnFieldsOnly ==
    [][/\ DOMAIN state' = DOMAIN state
       /\ state'.url = state.url
       /\ Running \in DOMAIN OwnFields
       /\ \E own \in OwnFields[Running] : Changed \subseteq own
       /\ update' # update =>
             /\ \A k \in DOMAIN state \ DOMAIN update' : state'[k] = state[k]
             /\ \A k \in DOMAIN update' : state'[k] = update'[k]
       /\ \A stage \in DOMAIN OwnFields :
             (\E i \in 1..Len(ran) : ran[i] = stage) /\ Running # stage =>
                 \A own \in OwnFields[stage] : \A k \in own : state'[k] = state[k]]_vars

\* a finished run in which every stage has written its field and none was lost
C14_Witness ==
    /\ pc = "done"
    /\ state.error = None
    /\ state.raw_html # <<>>
    /\ state.original_content # <<>>
    /\ state.analyzed_sections # <<>>
    /\ state.research_results # <<>>
    /\ state.modernized_markdown # <<>>
    /\ state.quality_report # Dict(EmptyMap)

FetchRan == \E i \in 1..Len(ran) : ran[i] = "fetch"

\* C15: in every reachable state of a run, error is set (not None) if and only if
\* the fetch stage has run and failed: it is None initially and after a successful
\* fetch, no later stage sets or clears it whatever that stage's own failures are,
\* and whenever error is set raw_html and original_content are empty.
C15_ErrorIffFetchFailed ==
    /\ state.error # None <=> (FetchRan /\ FetchFailed)
    /\ state.error # None => state.raw_html = <<>> /\ state.original_content = <<>>

\* a finished run whose GET failed, and whose analyzer and quality calls failed too
C15_Witness ==
    /\ pc = "done"
    /\ ret.exc = "RequestException"
    /\ state.error # None
    /\ reply.analyze.kind = "error"
    /\ reply.quality_check.kind = "error"

\* a finished run whose fetch succeeded although every LLM call failed: no error
C15_NoErrorAfterLaterFailures ==
    (pc = "done" /\ ret.exc = "none" /\ \A s \in DOMAIN reply : reply[s].kind \in {"error", "none"})
        => state.error = None

----------------------------------------------------------------------------
(* Properties of the quality report, checked under Spec *)

ReportFields == {"scores", "suggestions", "average_score"}

\* the quality checker's LLM call raised, or its reply holds no brace or bracket, or
\* what the JSON extractor returns for its reply is not an object
QualityDegraded ==
    LET q == reply.quality_check IN
    \/ q.kind = "error"
    \/ q.kind = "reply" /\ \A i \in 1..Len(q.text) : q.text[i] \notin Openers
    \/ /\ q.kind = "reply"
       /\ extract_json_from_response(q.text).exc = "none"
       /\ extract_json_from_response(q.text).val.t # "dict"

\* C16: in the final state of every run quality_report has the three sub-fields
\* scores, suggestions and average_score; when the quality checker's LLM call fails,
\* or its response holds no JSON, or the parsed JSON is not an object, the report is
\* exactly scores = {}, suggestions = [], average_score = 0.
C16_ReportAlwaysPresent ==
    Ended =>
        /\ state.quality_report.t = "dict"
        /\ DOMAIN state.quality_report.v = ReportFields
        /\ QualityDegraded => state.quality_report = DefaultReport

\* the same for the runs that end after quality_check
C16_HoldsWhenRunCompletes ==
    pc = "done" =>
        /\ state.quality_report.t = "dict"
        /\ DOMAIN state.quality_report.v = ReportFields
        /\ QualityDegraded => state.quality_report = DefaultReport

\* a score number between 0 and 10 (numbers are in tenths)
InRange(x) == x.t = "num" /\ 0 <= x.v /\ x.v <= 100

\* C17: in the final state of every run, whatever JSON the quality checker's LLM
\* returned, quality_report.scores is a mapping whose every value is a number
\* between 0 and 10, suggestions is a sequence, and average_score lies between 0
\* and 10.  Stated for the runs that end after quality_check.
C17_ScoresWithinRange ==
    pc = "done" =>
        LET q == state.quality_report.v IN
        /\ q.scores.t = "dict"
        /\ \A k \in DOMAIN q.scores.v : InRange(q.scores.v[k])
        /\ q.suggestions.t = "list"
        /\ InRange(q.average_score)

\* the average lies between 0 and 10 when every score of the report does
C17_HoldsWhenScoresInRange ==
    LET q == state.quality_report.v IN
    (/\ pc = "done"
     /\ q.scores.t = "dict"
     /\ \A k \in DOMAIN q.scores.v : InRange(q.scores.v[k]))
        => InRange(q.average_score)

====
